---------------------------- MODULE Spec2Model ----------------------------
(***************************************************************************)
(* Model of src/app.py (elite-ticket-ingest): the rule store               *)
(* (load_rules / save_rules / upsert_rule), the fare quoter (find_rule /   *)
(* patch_fare) and the ticket parser (parse_ticket_pdf).                   *)
(*                                                                         *)
(* Conventions.                                                            *)
(*  - A Python str is a sequence of one-character strings, so that         *)
(*    str.upper() and the f-string key construction are computed.          *)
(*  - A money amount is an integer number of cents: every amount the       *)
(*    parser produces matches [0-9]{1,3}(,[0-9]{3})*\.[0-9]{2}.            *)
(*  - A Python dict is a function whose DOMAIN is the set of present keys. *)
(*  - None is the empty sequence (no rule key is empty: each holds "|").   *)
(***************************************************************************)
EXTENDS Integers, Sequences, FiniteSets, TLC

VARIABLES
    rules,      \* content of the file RULES_PATH: key -> record
    today,      \* date.today() at the last upsert_rule call, as a day number
    lastOp,     \* the last completed call: "none", "upsert", "find", "patch"
    arg,        \* its arguments
    ret,        \* its return value
    nUpserts,   \* number of upsert_rule calls made so far
    repeated,   \* the last call is an upsert_rule repeating the call before it
    pc,         \* per ingest request: position in upsert_rule
    req,        \* per ingest request: its arguments
    localRules, \* per ingest request: the local variable `rules`
    written,    \* (key, field) pairs some save_rules has written as nonzero
    doc,        \* the extracted text, as a sequence of tokens
    ppc,        \* position of parse_ticket_pdf
    route,      \* local `route` of parse_ticket_pdf
    components, \* local `components` of parse_ticket_pdf
    total,      \* local `total` of parse_ticket_pdf
    cursor      \* loop indices of parse_ticket_pdf

storeVars == <<rules, today, lastOp, arg, ret, nUpserts, repeated>>
concVars  == <<pc, req, localRules, written>>
parseVars == <<doc, ppc, route, components, total, cursor>>
vars      == <<storeVars, concVars, parseVars>>

---------------------------------------------------------------------------
(* Bounds *)

MaxUpserts == 2
MaxDay == 2
MaxRequests == 2
MaxRouteTokens == 5
MaxTaxTokens == 4
MaxTotalTokens == 4

---------------------------------------------------------------------------
(* Strings *)

Lower == <<"a","b","c","d","e","f","g","h","i","j","k","l","m",
           "n","o","p","q","r","s","t","u","v","w","x","y","z">>
UpperCase == <<"A","B","C","D","E","F","G","H","I","J","K","L","M",
               "N","O","P","Q","R","S","T","U","V","W","X","Y","Z">>

\* the letters str.upper() changes, each with its upper-case letter
ToUpper ==
    [c \in {Lower[i] : i \in 1..Len(Lower)} |->
        UpperCase[CHOOSE i \in 1..Len(Lower) : Lower[i] = c]]

\* str.upper() on one character
UpperChar(c) == IF c \in DOMAIN ToUpper THEN ToUpper[c] ELSE c

\* str.upper()
Upper(s) == [i \in 1..Len(s) |-> UpperChar(s[i])]

Null == << >>
EmptyRecord == << >>

\* f"{origin}-{dest}"
RouteStr(origin, dest) == origin \o <<"-">> \o dest

\* f"{carrier}|{route}|{pos}|{currency}"
RuleKey(carrier, rt, pos, currency) ==
    carrier \o <<"|">> \o rt \o <<"|">> \o pos \o <<"|">> \o currency

\* dict.get(k, default)
Get(d, k, default) == IF k \in DOMAIN d THEN d[k] ELSE default

\* d[k] = v
Put(d, k, v) == [x \in (DOMAIN d) \cup {k} |-> IF x = k THEN v ELSE d[x]]

---------------------------------------------------------------------------
(* Rule store *)

\* load_rules(): the whole mapping, {} when there is no file
load_rules(file) == file

\* save_rules(rules): the whole mapping replaces the file
save_rules(file, mapping) == mapping

\* faulty variant: the field is written whatever the derived value
SetAlways(r, f, v) == Put(r, f, v)

\* faulty variant: a nonzero derived value is added to the stored one
SetAccumulate(r, f, v) == IF v # 0 THEN Put(r, f, Get(r, f, 0) + v) ELSE r

\* `if v: r[f] = round(v, 2)`: on whole cents round(v, 2) is v
SetIfNonzero(r, f, v) == IF v # 0 THEN Put(r, f, v) ELSE r

\* the record upsert_rule builds from the existing one (lines 182-194)
MergeRecord(r, ticket, day) ==
    LET yqyr == ticket.components["YQ"] + ticket.components["YR"]
        xt   == ticket.components["XT"]
        gc   == ticket.components["GC"]
        i9   == ticket.components["I9"]
        r1   == SetIfNonzero(r,  "yqyr_offset", yqyr)
        r2   == SetIfNonzero(r1, "xt_offset", xt)
        r3   == SetIfNonzero(r2, "gc_tax", gc)
        r4   == SetIfNonzero(r3, "i9_tax", i9)
    IN  Put(r4, "last_verified_at", day)

\* the key upsert_rule builds (line 180): pos is used as given
UpsertKey(ticket, pos) ==
    RuleKey(ticket.carrier, ticket.route, pos, ticket.currency)

\* upsert_rule(ticket, pos) on the mapping `loaded`: the mapping it saves
UpsertMapping(loaded, ticket, pos, day) ==
    LET key == UpsertKey(ticket, pos)
        r   == MergeRecord(Get(loaded, key, EmptyRecord), ticket, day)
    IN  Put(loaded, key, r)

\* faulty variant: the reversed key is tried before the forward key
find_rule_reversed_first(loaded, carrier, origin, dest, currency, pos) ==
    LET key == RuleKey(Upper(carrier), RouteStr(Upper(origin), Upper(dest)),
                       Upper(pos), Upper(currency))
        rev_key == RuleKey(Upper(carrier), RouteStr(Upper(dest), Upper(origin)),
                           Upper(pos), Upper(currency))
    IN  IF rev_key \in DOMAIN loaded
        THEN [key |-> rev_key, rec |-> loaded[rev_key]]
        ELSE IF key \in DOMAIN loaded THEN [key |-> key, rec |-> loaded[key]]
             ELSE [key |-> Null, rec |-> EmptyRecord]

\* find_rule(carrier, origin, dest, currency, pos) on the mapping `loaded`
find_rule(loaded, carrier, origin, dest, currency, pos) ==
    LET key == RuleKey(Upper(carrier), RouteStr(Upper(origin), Upper(dest)),
                       Upper(pos), Upper(currency))
        rev_key == RuleKey(Upper(carrier), RouteStr(Upper(dest), Upper(origin)),
                           Upper(pos), Upper(currency))
    IN  IF key \in DOMAIN loaded THEN [key |-> key, rec |-> loaded[key]]
        ELSE IF rev_key \in DOMAIN loaded
             THEN [key |-> rev_key, rec |-> loaded[rev_key]]
             ELSE [key |-> Null, rec |-> EmptyRecord]

\* faulty variant: the amount is truncated to whole cents
Round2Truncate(num, den) == {num \div den}

\* round(x, 2) of x = num/den cents, num >= 0: a nearest whole number of
\* cents.  Python rounds the binary double nearest to x, so on an exact
\* half-cent tie the result is either neighbour, depending on the
\* representation error (1.00 * 1.005 gives 1.00, 0.05 * 1.10 gives 0.06).
Round2(num, den) ==
    {q \in {num \div den, (num \div den) + 1} :
        /\ 2 * (q * den - num) <= den
        /\ 2 * (num - q * den) <= den}

\* sp_total of patch_fare (line 221), in cents
SpTotal(base, rule) ==
    base + Get(rule, "yqyr_offset", 0) + Get(rule, "xt_offset", 0)
         + Get(rule, "gc_tax", 0) + Get(rule, "i9_tax", 0)

\* sp_total * (1 + markup_pct/100.0) with markup_pct in tenths of a percent:
\* the value to round is FinalNum / FinalDen cents
FinalDen == 1000
FinalNum(sp, markup) == sp * (FinalDen + markup)

---------------------------------------------------------------------------
(* Inputs of the store operations *)

CG  == <<"C","G">>
MAG == <<"M","A","G">>
WWK == <<"W","W","K">>
UNK == <<"U","N","K">>
PGK == <<"P","G","K">>
PG  == <<"P","G">>

Comp(yq, yr, xt, gc, i9) ==
    [c \in {"YQ","YR","XT","GC","I9"} |->
        CASE c = "YQ" -> yq [] c = "YR" -> yr [] c = "XT" -> xt
          [] c = "GC" -> gc [] OTHER -> i9]

\* components a parsed ticket can carry
ComponentSets ==
    { Comp(0, 0, 0, 0, 0),
      Comp(1000, 2000, 1550, 0, 0),
      Comp(0, 0, 300, 2280, 500) }

\* routes parse_ticket_pdf can return
TicketRoutes == { RouteStr(MAG, WWK), RouteStr(WWK, MAG), RouteStr(UNK, UNK) }

Tickets ==
    [carrier : {CG}, route : TicketRoutes, currency : {PGK},
     components : ComponentSets]

PosValues == { PG, <<"p","g">> }

QuoteCarriers == { CG, <<"c","g">> }
\* (origin, dest) of a quote request
QuoteRoutes   == { <<MAG, WWK>>, <<WWK, MAG>>, <<UNK, UNK>> }
\* (base_fare in cents, markup_pct in tenths of a percent) of a quote request
QuoteFares    == { <<23800, 88>>, <<10000, 100>>, <<100, 5>>, <<5, 100>> }

NoTicket == [carrier |-> Null, route |-> Null, currency |-> Null,
             components |-> Comp(0, 0, 0, 0, 0)]
NoArg == [ticket |-> NoTicket, pos |-> Null, carrier |-> Null, origin |-> Null,
          dest |-> Null, currency |-> Null, base |-> 0, markup |-> 0]
NoRet == [key |-> Null, rec |-> EmptyRecord, sp |-> 0, final |-> 0]

---------------------------------------------------------------------------
(* Idle values of the variables a specification does not use *)

StoreIdle ==
    /\ rules = << >> /\ today = 1 /\ lastOp = "none" /\ arg = NoArg
    /\ ret = NoRet /\ nUpserts = 0 /\ repeated = FALSE
ConcIdle ==
    /\ pc = << >> /\ req = << >> /\ localRules = << >> /\ written = {}
ParseIdle ==
    /\ doc = << >> /\ ppc = "idle" /\ route = << >> /\ components = << >>
    /\ total = 0 /\ cursor = << >>

---------------------------------------------------------------------------
(* Sequential rule store and quoter: one call at a time *)

Init ==
    /\ rules = << >>           \* no file yet: load_rules() returns {}
    /\ today = 1
    /\ lastOp = "none"
    /\ arg = NoArg
    /\ ret = NoRet
    /\ nUpserts = 0
    /\ repeated = FALSE
    /\ ConcIdle
    /\ ParseIdle

\* upsert_rule(ticket, pos); date.today() is the date of the call before it
\* or a later one
UpsertRule ==
    /\ nUpserts < MaxUpserts
    /\ \E ticket \in Tickets, pos \in PosValues, day \in today..MaxDay :
        LET a == [NoArg EXCEPT !.ticket = ticket, !.pos = pos]
            saved == save_rules(rules,
                         UpsertMapping(load_rules(rules), ticket, pos, day))
            key == UpsertKey(ticket, pos)
        IN  /\ rules' = saved
            /\ today' = day
            /\ arg' = a
            /\ ret' = [NoRet EXCEPT !.key = key, !.rec = saved[key]]
            /\ repeated' = (lastOp = "upsert" /\ arg = a /\ today = day)
    /\ lastOp' = "upsert"
    /\ nUpserts' = nUpserts + 1
    /\ UNCHANGED <<concVars, parseVars>>

\* find_rule(carrier, origin, dest, currency, pos)
FindRule ==
    /\ \E carrier \in QuoteCarriers, od \in QuoteRoutes, pos \in PosValues :
        LET f == find_rule(load_rules(rules), carrier, od[1], od[2], PGK, pos)
        IN  /\ arg' = [NoArg EXCEPT !.carrier = carrier, !.origin = od[1],
                          !.dest = od[2], !.currency = PGK, !.pos = pos]
            /\ ret' = [NoRet EXCEPT !.key = f.key, !.rec = f.rec]
    /\ lastOp' = "find"
    /\ repeated' = FALSE
    /\ UNCHANGED <<rules, today, nUpserts, concVars, parseVars>>

\* patch_fare(base_fare, carrier, origin, dest, currency, pos, markup_pct)
PatchFare ==
    /\ \E od \in QuoteRoutes, bm \in QuoteFares :
        LET f  == find_rule(load_rules(rules), CG, od[1], od[2], PGK, PG)
            sp == SpTotal(bm[1], f.rec)
        IN  /\ arg' = [NoArg EXCEPT !.carrier = CG, !.origin = od[1],
                          !.dest = od[2], !.currency = PGK, !.pos = PG,
                          !.base = bm[1], !.markup = bm[2]]
            /\ \E final \in Round2(FinalNum(sp, bm[2]), FinalDen) :
                ret' = [key |-> f.key, rec |-> f.rec, sp |-> sp, final |-> final]
    /\ lastOp' = "patch"
    /\ repeated' = FALSE
    /\ UNCHANGED <<rules, today, nUpserts, concVars, parseVars>>

Next == UpsertRule \/ FindRule

Spec == Init /\ [][Next]_vars

\* ingest and quote requests, one at a time, within one day
NextQuote == UpsertRule \/ PatchFare

SpecQuote == Init /\ [][NextQuote]_vars

---------------------------------------------------------------------------
(* Concurrent ingest requests: each runs upsert_rule as load_rules (line   *)
(* 181), the local modification (lines 182-195) and save_rules (line 196), *)
(* with no lock on the rule file.                                          *)

Procs == {"req1", "req2"}

ConcTickets ==
    [carrier : {CG}, route : {RouteStr(MAG, WWK), RouteStr(WWK, MAG)},
     currency : {PGK},
     components : {Comp(1000, 2000, 1550, 0, 0), Comp(0, 0, 300, 2280, 500)}]

\* the (key, field) pairs of a mapping that hold a nonzero offset
NonzeroFields(mapping) ==
    {kf \in (DOMAIN mapping) \X {"yqyr_offset", "xt_offset", "gc_tax", "i9_tax"} :
        kf[2] \in DOMAIN mapping[kf[1]] /\ mapping[kf[1]][kf[2]] # 0}

InitConc ==
    /\ rules = << >>
    /\ today = 1
    /\ lastOp = "none" /\ arg = NoArg /\ ret = NoRet /\ repeated = FALSE
    /\ nUpserts = 0
    /\ pc = [p \in Procs |-> "idle"]
    /\ req = [p \in Procs |-> [ticket |-> NoTicket, pos |-> Null]]
    /\ localRules = [p \in Procs |-> << >>]
    /\ written = {}
    /\ ParseIdle

\* an ingest request reaches upsert_rule(ticket) (line 251)
Begin(p) ==
    /\ pc[p] = "idle"
    /\ nUpserts < MaxRequests
    /\ \E ticket \in ConcTickets :
        req' = [req EXCEPT ![p] = [ticket |-> ticket, pos |-> PG]]
    /\ pc' = [pc EXCEPT ![p] = "load"]
    /\ nUpserts' = nUpserts + 1
    /\ UNCHANGED <<rules, today, lastOp, arg, ret, repeated, localRules,
                   written, parseVars>>

\* rules = load_rules()
Load(p) ==
    /\ pc[p] = "load"
    /\ localRules' = [localRules EXCEPT ![p] = load_rules(rules)]
    /\ pc' = [pc EXCEPT ![p] = "modify"]
    /\ UNCHANGED <<storeVars, req, written, parseVars>>

\* r = rules.get(key, {}) ... rules[key] = r
Modify(p) ==
    /\ pc[p] = "modify"
    /\ localRules' = [localRules EXCEPT ![p] =
           UpsertMapping(localRules[p], req[p].ticket, req[p].pos, today)]
    /\ pc' = [pc EXCEPT ![p] = "save"]
    /\ UNCHANGED <<storeVars, req, written, parseVars>>

\* faulty variant: save_rules rewrites only the request's own key
SaveOwnKey(p) ==
    /\ pc[p] = "save"
    /\ LET key == UpsertKey(req[p].ticket, req[p].pos)
       IN  rules' = Put(rules, key, localRules[p][key])
    /\ written' = written \cup NonzeroFields(localRules[p])
    /\ pc' = [pc EXCEPT ![p] = "idle"]
    /\ UNCHANGED <<today, lastOp, arg, ret, nUpserts, repeated, req,
                   localRules, parseVars>>

\* save_rules(rules); return key, r
Save(p) ==
    /\ pc[p] = "save"
    /\ rules' = save_rules(rules, localRules[p])
    /\ written' = written \cup NonzeroFields(localRules[p])
    /\ pc' = [pc EXCEPT ![p] = "idle"]
    /\ UNCHANGED <<today, lastOp, arg, ret, nUpserts, repeated, req,
                   localRules, parseVars>>

NextConc == \E p \in Procs : Begin(p) \/ Load(p) \/ Modify(p) \/ Save(p)

SpecConc == InitConc /\ [][NextConc]_vars

\* C7 (lost update): whenever a request's save_rules completes, the file is
\* that request's whole local mapping, whatever other requests saved since it
\* loaded (the last writer wins on the whole file, not per key).
C7_LastWriterWins ==
    [][ \A p \in Procs :
          (pc[p] = "save" /\ pc'[p] = "idle") => rules' = localRules[p] ]_vars

\* C7 witness: two requests that wrote different keys have both finished and
\* a nonzero field one of them saved is absent from the file, with its key.
C7_Witness ==
    /\ \A p \in Procs : pc[p] = "idle"
    /\ UpsertKey(req["req1"].ticket, req["req1"].pos)
         # UpsertKey(req["req2"].ticket, req["req2"].pos)
    /\ \E kf \in written : kf[1] \notin DOMAIN rules

---------------------------------------------------------------------------
(* parse_ticket_pdf: the text                                              *)
(*                                                                         *)
(* The upper-cased text T is a sequence of tokens.  Two neighbouring       *)
(* tokens are separated by one space, except that a newline token stands   *)
(* for a line break with no space around it.  A word is a run of letters   *)
(* (the marker FARE CALCULATION is kept as one token holding its space);   *)
(* an amount is a run matching [0-9]{1,3}(,[0-9]{3})*\.[0-9]{2}, in cents; *)
(* a glued token is an amount directly followed by a code, as in 22.80GC.  *)

Word(w)     == [k |-> "word",  w |-> w,     v |-> 0]
Amount(v)   == [k |-> "amt",   w |-> << >>, v |-> v]
Glued(v, c) == [k |-> "glued", w |-> c,     v |-> v]
Newline     == [k |-> "nl",    w |-> << >>, v |-> 0]
Colon       == [k |-> "colon", w |-> << >>, v |-> 0]

FROM   == <<"F","R","O","M">>
TO     == <<"T","O">>
ORIGIN == <<"O","R","I","G","I","N">>
DEST   == <<"D","E","S","T">>
DESTINATION == <<"D","E","S","T","I","N","A","T","I","O","N">>
END    == <<"E","N","D">>
FARE_CALCULATION ==
    <<"F","A","R","E"," ","C","A","L","C","U","L","A","T","I","O","N">>

BAD ==
    { <<"F","O","R">>, <<"T","H","E">>, <<"P","N","G">>,
      <<"A","I","R">>, <<"P","G","K">>, <<"T","T","L">>,
      <<"T","A","X">>, <<"T","O","T","A","L">>, <<"A","M","O","U","N","T">>,
      <<"R","E","C","E","I","P","T">>, <<"E","N","D">> }

PNG ==
    { <<"P","O","M">>, <<"L","A","E">>, <<"H","G","U">>,
      <<"R","A","B">>, <<"G","U","R">>, <<"W","W","K">>,
      <<"H","K","N">>, <<"M","A","G">>, <<"K","V","G">>,
      <<"P","N","P">>, <<"K","R","I">>, <<"G","K","A">>,
      <<"K","M","A">>, <<"L","N","V">>, <<"B","U","A">>,
      <<"K","I","E">>, <<"M","D","U">> }

REG ==
    { <<"B","N","E">>, <<"C","N","S">>, <<"T","S","V">>,
      <<"H","K","G">>, <<"S","I","N">>, <<"S","Y","D">>,
      <<"B","K","K">>, <<"M","N","L">>, <<"M","E","L">> }

IATA == PNG \cup REG

Min(S) == CHOOSE x \in S : \A y \in S : x <= y
Max(S) == CHOOSE x \in S : \A y \in S : x >= y

\* number of decimal digits of n >= 0
RECURSIVE NumDigits(_)
NumDigits(n) == IF n < 10 THEN 1 ELSE 1 + NumDigits(n \div 10)

\* number of characters of a token
TokLen(t) ==
    CASE t.k = "word"  -> Len(t.w)
      [] t.k = "colon" -> 1
      [] t.k = "nl"    -> 1
      [] OTHER ->
           LET n == NumDigits(t.v \div 100)
           IN  n + ((n - 1) \div 3) + 3 + Len(t.w)

\* a word of exactly three letters: what \b([A-Z]{3})\b can match
IsCode3(t) == t.k = "word" /\ Len(t.w) = 3

IsWord(t, w) == t.k = "word" /\ t.w = w

\* the first token after position i whose kind is not in `skip`, or 0
NextSkip(d, i, skip) ==
    LET S == {j \in (i + 1)..Len(d) : d[j].k \notin skip}
    IN  IF S = {} THEN 0 ELSE Min(S)

NoRoute == << >>

---------------------------------------------------------------------------
(* parse_ticket_pdf: route detection (lines 71-105) *)

\* the bound of .{0,20} in the FROM..TO pattern
GapMax == 20

\* characters between the token at j and the token at k > j on one line
RECURSIVE GapLen(_, _, _)
GapLen(d, j, k) ==
    IF k = j + 1 THEN 1 ELSE TokLen(d[k - 1]) + 1 + GapLen(d, j, k - 1)

\* the matches of \bFROM\s+([A-Z]{3})\b.{0,20}\bTO\s+([A-Z]{3})\b that
\* start at token i, as <<j, k, l>>: origin at j, TO at k, destination at l
FromToAt(d, i) ==
    IF ~IsWord(d[i], FROM) THEN {}
    ELSE LET j == NextSkip(d, i, {"nl"})
         IN  IF j = 0 \/ ~IsCode3(d[IF j = 0 THEN i ELSE j]) THEN {}
             ELSE { <<j, k, NextSkip(d, k, {"nl"})>> : k \in
                      { k \in (j + 1)..Len(d) :
                          /\ IsWord(d[k], TO)
                          /\ \A x \in (j + 1)..(k - 1) : d[x].k # "nl"
                          /\ GapLen(d, j, k) <= GapMax
                          /\ NextSkip(d, k, {"nl"}) # 0
                          /\ IsCode3(d[NextSkip(d, k, {"nl"})]) } }

\* A) FROM XXX TO YYY: re.search takes the leftmost start and, .{0,20}
\* being greedy, the rightmost TO; the codes must be in IATA
StrategyFromTo(d) ==
    LET I == {i \in 1..Len(d) : FromToAt(d, i) # {}}
    IN  IF I = {} THEN NoRoute
        ELSE LET M == FromToAt(d, Min(I))
                 m == CHOOSE x \in M : \A y \in M : x[2] >= y[2]
                 a == d[m[1]].w
                 b == d[m[3]].w
             IN  IF a \in IATA /\ b \in IATA THEN RouteStr(a, b) ELSE NoRoute

\* the group of \bLABEL\b[:\s]+([A-Z]{3}): the first three letters of the
\* word that follows the leftmost label which a word of >= 3 letters follows
LabelledCode(d, labels) ==
    LET ok(i) == /\ d[i].k = "word" /\ d[i].w \in labels
                 /\ NextSkip(d, i, {"nl", "colon"}) # 0
                 /\ d[NextSkip(d, i, {"nl", "colon"})].k = "word"
                 /\ Len(d[NextSkip(d, i, {"nl", "colon"})].w) >= 3
        I == {i \in 1..Len(d) : ok(i)}
    IN  IF I = {} THEN NoRoute
        ELSE SubSeq(d[NextSkip(d, Min(I), {"nl", "colon"})].w, 1, 3)

\* B) ORIGIN / DEST(INATION)
StrategyLabels(d) ==
    LET a == LabelledCode(d, {ORIGIN})
        b == LabelledCode(d, {DEST, DESTINATION})
    IN  IF a # NoRoute /\ b # NoRoute /\ a \in IATA /\ b \in IATA
        THEN RouteStr(a, b) ELSE NoRoute

\* C) re.findall(\b([A-Z]{3})\s*[-/ ]\s*([A-Z]{3})\b): the non-overlapping
\* pairs from position i on, left to right; the first acceptable one
RECURSIVE PairScan(_, _)
PairScan(d, i) ==
    IF i >= Len(d) THEN NoRoute
    ELSE IF IsCode3(d[i]) /\ IsCode3(d[i + 1])
         THEN IF /\ d[i].w \notin BAD /\ d[i + 1].w \notin BAD
                 /\ d[i].w \in IATA /\ d[i + 1].w \in IATA
              THEN RouteStr(d[i].w, d[i + 1].w)
              ELSE PairScan(d, i + 2)
         ELSE PairScan(d, i + 1)

StrategyPairs(d) == PairScan(d, 1)

\* the tokens of the line that starts at position i
LineFrom(d, i) ==
    LET n == {j \in i..Len(d) : d[j].k = "nl"}
    IN  SubSeq(d, i, IF n = {} THEN Len(d) ELSE Min(n) - 1)

\* w holds END as a substring
HoldsEND(w) ==
    \E i \in 1..(Len(w) - 2) : SubSeq(w, i, i + 2) = END

LineHoldsEND(line) ==
    \E i \in 1..Len(line) : line[i].k = "word" /\ HoldsEND(line[i].w)

\* the group of FARE\s+CALCULATION.*?\n([^\n]{0,200}): the line after the
\* first marker's line (no line of the model reaches 200 characters)
FcLineAfterMarker(d) ==
    LET F == {i \in 1..Len(d) : IsWord(d[i], FARE_CALCULATION)}
        n == IF F = {} THEN {}
             ELSE {j \in Min(F)..Len(d) : d[j].k = "nl"}
    IN  IF n = {} THEN << >> ELSE LineFrom(d, Min(n) + 1)

\* the group of ^\s*:\s*([^\n]*END[^\n]*)$: what follows the leftmost colon
\* that starts a line, on its own line or, the colon standing alone on its
\* line, on the next non-empty line, if that holds END
ColonLine(d, c) ==
    IF Len(LineFrom(d, c + 1)) > 0 /\ (c = Len(d) \/ d[c + 1].k # "nl")
    THEN LineFrom(d, c + 1)
    ELSE LET j == NextSkip(d, c, {"nl"})
         IN  IF j = 0 THEN << >> ELSE LineFrom(d, j)

FcLineAfterColon(d) ==
    LET C == {c \in 1..Len(d) :
                /\ d[c].k = "colon"
                /\ (c = 1 \/ d[c - 1].k = "nl")
                /\ LineHoldsEND(ColonLine(d, c))}
    IN  IF C = {} THEN << >> ELSE ColonLine(d, Min(C))

\* D) fare calculation fallback: the first two airports of fc_line
StrategyFareCalc(d) ==
    LET fc1 == FcLineAfterMarker(d)
        fc_line == IF Len(fc1) > 0 THEN fc1 ELSE FcLineAfterColon(d)
        tokens == SelectSeq(fc_line, IsCode3)
        airport(t) == t.w \in IATA /\ t.w \notin BAD /\ t.w # PGK
        airports == SelectSeq(tokens, airport)
    IN  IF Len(airports) >= 2
        THEN RouteStr(airports[1].w, airports[2].w) ELSE NoRoute

UNK_UNK == RouteStr(UNK, UNK)

\* faulty variant: the generic pairs are searched whatever A and B found
RouteDetectionPairsLast(d) ==
    LET ab == IF StrategyFromTo(d) # NoRoute THEN StrategyFromTo(d)
              ELSE IF StrategyLabels(d) # NoRoute THEN StrategyLabels(d)
              ELSE UNK_UNK
    IN  IF StrategyPairs(d) # NoRoute THEN StrategyPairs(d)
        ELSE IF ab # UNK_UNK THEN ab
        ELSE IF StrategyFareCalc(d) # NoRoute THEN StrategyFareCalc(d)
        ELSE UNK_UNK

\* the value of `route` after lines 72-105
RouteDetection(d) ==
    IF StrategyFromTo(d) # NoRoute THEN StrategyFromTo(d)
    ELSE IF StrategyLabels(d) # NoRoute THEN StrategyLabels(d)
    ELSE IF StrategyPairs(d) # NoRoute THEN StrategyPairs(d)
    ELSE IF StrategyFareCalc(d) # NoRoute THEN StrategyFareCalc(d)
    ELSE UNK_UNK

\* tokens of the texts the route detection is run on
RouteTokens ==
    { Word(FROM), Word(TO), Word(ORIGIN), Word(DEST), Word(MAG), Word(WWK),
      Word(END), Word(FARE_CALCULATION), Colon, Newline }

Docs(tokens, n) == UNION { [1..m -> tokens] : m \in 0..n }

InitRoute ==
    /\ doc \in Docs(RouteTokens, MaxRouteTokens)
    /\ ppc = "route"
    /\ route = UNK_UNK
    /\ components = << >> /\ total = 0 /\ cursor = << >>
    /\ StoreIdle
    /\ ConcIdle

\* lines 72-105
DetectRoute ==
    /\ ppc = "route"
    /\ route' = RouteDetection(doc)
    /\ ppc' = "taxes"
    /\ UNCHANGED <<doc, components, total, cursor, storeVars, concVars>>

NextRoute == DetectRoute

SpecRoute == InitRoute /\ [][NextRoute]_vars

\* the result of strategy n (1 FROM..TO, 2 labels, 3 pairs, 4 fare calculation)
StrategyResult(n, d) ==
    CASE n = 1 -> StrategyFromTo(d)
      [] n = 2 -> StrategyLabels(d)
      [] n = 3 -> StrategyPairs(d)
      [] n = 4 -> StrategyFareCalc(d)

\* C5 (route cascade order): the route is the result of the first strategy,
\* in the order 1..4, that succeeds; it is UNK-UNK exactly when all four
\* fail; a text matching strategies 1 and 3 yields strategy 1's pair.
C5_CascadeOrder ==
    ppc = "taxes" =>
        LET ok == {n \in 1..4 : StrategyResult(n, doc) # NoRoute}
        IN  /\ ok # {} => route = StrategyResult(Min(ok), doc)
            /\ (ok = {}) <=> (route = UNK_UNK)
            /\ (1 \in ok /\ 3 \in ok) => route = StrategyFromTo(doc)

\* C5 witness: a text on which strategies 1 and 3 both succeed, with
\* different pairs, has been parsed.
C5_Witness ==
    /\ ppc = "taxes"
    /\ StrategyFromTo(doc) # NoRoute
    /\ StrategyPairs(doc) # NoRoute
    /\ StrategyPairs(doc) # StrategyFromTo(doc)
    /\ route = StrategyFromTo(doc)

---------------------------------------------------------------------------
(* parse_ticket_pdf: tax components (lines 107-144) *)

\* codes = ("YQ","YR","XT","GC","I9"), each with the text its pattern holds
codes == <<"YQ", "YR", "XT", "GC", "I9">>
CodeText ==
    [c \in {"YQ", "YR", "XT", "GC", "I9", "UN", "NX"} |->
        CASE c = "YQ" -> <<"Y","Q">> [] c = "YR" -> <<"Y","R">>
          [] c = "XT" -> <<"X","T">> [] c = "GC" -> <<"G","C">>
          [] c = "I9" -> <<"I","9">> [] c = "UN" -> <<"U","N">>
          [] OTHER    -> <<"N","X">>]
aliases == <<"UN", "NX">>

TAX   == <<"T","A","X">>
TOTAL == <<"T","O","T","A","L">>

\* no match (None)
NoAmount == -1

\* lines: the non-empty lines of T (line 53), from position i on
RECURSIVE LinesFrom(_, _)
LinesFrom(d, i) ==
    IF i > Len(d) THEN << >>
    ELSE IF d[i].k = "nl" THEN LinesFrom(d, i + 1)
    ELSE <<LineFrom(d, i)>> \o LinesFrom(d, i + Len(LineFrom(d, i)))

Lines(d) == LinesFrom(d, 1)

\* sub in w
HoldsSub(w, sub) ==
    \E i \in 1..(Len(w) - Len(sub) + 1) : SubSeq(w, i, i + Len(sub) - 1) = sub

IsAmountTok(t) == t.k \in {"amt", "glued"}

\* the index of the first line with "TAX" in it, or 0 (line 112)
TaxLineIndex(ls) ==
    LET I == {i \in 1..Len(ls) :
                \E j \in 1..Len(ls[i]) :
                    ls[i][j].k = "word" /\ HoldsSub(ls[i][j].w, TAX)}
    IN  IF I = {} THEN 0 ELSE Min(I)

\* re.search(\bC\b[:\s]+(amount)) on the tokens sq: the amount that directly
\* follows the leftmost word C which an amount follows
CodeThenAmount(sq, c) ==
    LET I == {i \in 1..Len(sq) :
                /\ IsWord(sq[i], CodeText[c])
                /\ NextSkip(sq, i, {"colon", "nl"}) # 0
                /\ IsAmountTok(sq[NextSkip(sq, i, {"colon", "nl"})])}
    IN  IF I = {} THEN NoAmount
        ELSE sq[NextSkip(sq, Min(I), {"colon", "nl"})].v

\* re.search((?:PGK\s*)?(amount)\s*C\b) on the tokens sq: the leftmost amount
\* that the code C follows, glued to it or after white space
AmountThenCode(sq, c) ==
    LET I == {i \in 1..Len(sq) :
                \/ sq[i].k = "glued" /\ sq[i].w = CodeText[c]
                \/ /\ sq[i].k = "amt"
                   /\ NextSkip(sq, i, {"nl"}) # 0
                   /\ IsWord(sq[NextSkip(sq, i, {"nl"})], CodeText[c])}
    IN  IF I = {} THEN NoAmount ELSE sq[Min(I)].v

\* re.search(amount) on the tokens sq: the leftmost amount
FirstAmount(sq) ==
    LET I == {i \in 1..Len(sq) : IsAmountTok(sq[i])}
    IN  IF I = {} THEN NoAmount ELSE sq[Min(I)].v

\* max(components[c], v) when the pattern matched
MaxWith(cur, v) == IF v = NoAmount THEN cur ELSE IF v > cur THEN v ELSE cur

\* faulty variant: the line scan does not skip a code that already has a value
LineScanValueUnguarded(ls, i, c, cur) ==
    IF \E j \in 1..Len(ls[i]) : IsWord(ls[i][j], CodeText[c])
    THEN IF FirstAmount(ls[i]) # NoAmount THEN FirstAmount(ls[i])
         ELSE IF i + 1 <= Len(ls) /\ FirstAmount(ls[i + 1]) # NoAmount
              THEN FirstAmount(ls[i + 1])
              ELSE cur
    ELSE MaxWith(cur, AmountThenCode(ls[i], c))

\* the value of components[c] after the body of the loop of lines 123-138
\* for line i of ls and code c
LineScanValue(ls, i, c, cur) ==
    IF cur > 0 THEN cur
    ELSE IF \E j \in 1..Len(ls[i]) : IsWord(ls[i][j], CodeText[c])
         THEN IF FirstAmount(ls[i]) # NoAmount THEN FirstAmount(ls[i])
              ELSE IF i + 1 <= Len(ls) /\ FirstAmount(ls[i + 1]) # NoAmount
                   THEN FirstAmount(ls[i + 1])
                   ELSE cur
         ELSE MaxWith(cur, AmountThenCode(ls[i], c))

\* the value of components["XT"] after the body of the loop of lines 141-144
\* for one alias: round(xt + v, 2) is xt + v on whole cents
AliasValue(d, a, xt) ==
    IF AmountThenCode(d, a) = NoAmount THEN xt ELSE xt + AmountThenCode(d, a)

\* tokens of the texts the tax extraction is run on
TaxTokens ==
    { Word(TAX), Word(CodeText["XT"]), Word(CodeText["GC"]),
      Word(CodeText["UN"]), Amount(500), Amount(1000), Glued(2280, CodeText["GC"]),
      Newline }

\* where the extraction goes once the tax line is done with
AfterTaxLine(d) ==
    IF Len(Lines(d)) = 0
    THEN [phase |-> "alias", i |-> 1, c |-> 1]
    ELSE [phase |-> "lines", i |-> 1, c |-> 1]

InitTax ==
    /\ doc \in Docs(TaxTokens, MaxTaxTokens)
    /\ ppc = "taxes"
    /\ route = UNK_UNK
    /\ components = [c \in {codes[n] : n \in 1..Len(codes)} |-> 0]
    /\ total = 0
    /\ cursor = [phase |-> "taxline", i |-> 1, c |-> 1]
    /\ StoreIdle
    /\ ConcIdle

\* `if tax_line:` is false (line 113)
NoTaxLine ==
    /\ ppc = "taxes" /\ cursor.phase = "taxline"
    /\ TaxLineIndex(Lines(doc)) = 0
    /\ cursor' = AfterTaxLine(doc)
    /\ UNCHANGED <<doc, ppc, route, components, total, storeVars, concVars>>

\* lines 115-117: CODE then amount on the tax line, for one code
TaxLineCodeFirst ==
    /\ ppc = "taxes" /\ cursor.phase = "taxline"
    /\ TaxLineIndex(Lines(doc)) # 0
    /\ LET tax_line == Lines(doc)[TaxLineIndex(Lines(doc))]
           c == codes[cursor.c]
       IN  components' = [components EXCEPT
               ![c] = MaxWith(components[c], CodeThenAmount(tax_line, c))]
    /\ cursor' = [cursor EXCEPT !.phase = "taxline2"]
    /\ UNCHANGED <<doc, ppc, route, total, storeVars, concVars>>

\* lines 118-120: amount then CODE on the tax line, for the same code
TaxLineAmountFirst ==
    /\ ppc = "taxes" /\ cursor.phase = "taxline2"
    /\ LET tax_line == Lines(doc)[TaxLineIndex(Lines(doc))]
           c == codes[cursor.c]
       IN  components' = [components EXCEPT
               ![c] = MaxWith(components[c], AmountThenCode(tax_line, c))]
    /\ cursor' = IF cursor.c < Len(codes)
                 THEN [cursor EXCEPT !.phase = "taxline", !.c = cursor.c + 1]
                 ELSE AfterTaxLine(doc)
    /\ UNCHANGED <<doc, ppc, route, total, storeVars, concVars>>

\* lines 123-138: one line and one code of the scan over all lines
LineScan ==
    /\ ppc = "taxes" /\ cursor.phase = "lines"
    /\ LET c == codes[cursor.c]
       IN  components' = [components EXCEPT
               ![c] = LineScanValue(Lines(doc), cursor.i, c, components[c])]
    /\ cursor' = IF cursor.c < Len(codes)
                 THEN [cursor EXCEPT !.c = cursor.c + 1]
                 ELSE IF cursor.i < Len(Lines(doc))
                      THEN [cursor EXCEPT !.i = cursor.i + 1, !.c = 1]
                      ELSE [phase |-> "alias", i |-> 1, c |-> 1]
    /\ UNCHANGED <<doc, ppc, route, total, storeVars, concVars>>

\* lines 141-144: one alias folded into XT
AliasFold ==
    /\ ppc = "taxes" /\ cursor.phase = "alias"
    /\ components' = [components EXCEPT
           !["XT"] = AliasValue(doc, aliases[cursor.c], components["XT"])]
    /\ IF cursor.c < Len(aliases)
       THEN cursor' = [cursor EXCEPT !.c = cursor.c + 1] /\ ppc' = ppc
       ELSE cursor' = [phase |-> "end", i |-> 1, c |-> 1] /\ ppc' = "base"
    /\ UNCHANGED <<doc, route, total, storeVars, concVars>>

NextTax ==
    NoTaxLine \/ TaxLineCodeFirst \/ TaxLineAmountFirst \/ LineScan \/ AliasFold

SpecTax == InitTax /\ [][NextTax]_vars

\* the text holds the code c directly followed by the amount v ("XT 10.00")
Present(d, c, v) ==
    \E i \in 1..(Len(d) - 1) : d[i] = Word(CodeText[c]) /\ d[i + 1] = Amount(v)

\* C6 (alias folding): the amounts of the alias codes UN and NX are added to
\* XT, an amount that belongs to another code is not; a text holding both
\* "XT 10.00" and "UN 5.00" ends with XT = 15.00.
C6_AliasFolding ==
    ( /\ ppc = "base"
      /\ Present(doc, "XT", 1000)
      /\ Present(doc, "UN", 500) )
    => components["XT"] = 1500

\* C9 (tax passes are cumulative): no step of the extraction lowers the value
\* of a component.
C9_Cumulative ==
    [][ \A n \in 1..Len(codes) :
            components'[codes[n]] >= components[codes[n]] ]_vars

\* C9 witness: XT ended at 10.00 although a line that holds the word XT has
\* 5.00 as its first amount, which the line scan would have taken.
C9_Witness ==
    /\ ppc = "base"
    /\ components["XT"] = 1000
    /\ \E i \in 1..Len(Lines(doc)) :
          /\ \E j \in 1..Len(Lines(doc)[i]) :
                IsWord(Lines(doc)[i][j], CodeText["XT"])
          /\ FirstAmount(Lines(doc)[i]) = 500

---------------------------------------------------------------------------
(* parse_ticket_pdf: total (lines 154-162) *)

\* the amounts the lines with the word TOTAL yield (lines 155-159)
TotalLineAmounts(ls) ==
    { FirstAmount(ls[i]) : i \in
        { i \in 1..Len(ls) :
            /\ \E j \in 1..Len(ls[i]) : IsWord(ls[i][j], TOTAL)
            /\ FirstAmount(ls[i]) # NoAmount } }

\* re.findall(amount, T)
AllAmounts(d) == { d[i].v : i \in {i \in 1..Len(d) : IsAmountTok(d[i])} }

\* max over a set of amounts, starting from 0.0
MaxOrZero(S) == IF S = {} THEN 0 ELSE Max(S)

\* tokens of the texts the total extraction is run on
TotalTokens ==
    { Word(TOTAL), Word(CodeText["XT"]), Amount(0), Amount(500), Amount(23800),
      Newline }

InitTotal ==
    /\ doc \in Docs(TotalTokens, MaxTotalTokens)
    /\ ppc = "total"
    /\ route = UNK_UNK
    /\ components = << >>
    /\ total = 0
    /\ cursor = << >>
    /\ StoreIdle
    /\ ConcIdle

\* lines 154-159
ScanTotalLines ==
    /\ ppc = "total"
    /\ total' = MaxOrZero(TotalLineAmounts(Lines(doc)))
    /\ ppc' = "fallback"
    /\ UNCHANGED <<doc, route, components, cursor, storeVars, concVars>>

\* lines 160-162
TotalFallback ==
    /\ ppc = "fallback"
    /\ total' = IF total = 0 THEN MaxOrZero(AllAmounts(doc)) ELSE total
    /\ ppc' = "derive"
    /\ UNCHANGED <<doc, route, components, cursor, storeVars, concVars>>

NextTotal == ScanTotalLines \/ TotalFallback

SpecTotal == InitTotal /\ [][NextTotal]_vars

\* C8 (total fallback): the largest amount of the whole text is used only if
\* no line with a TOTAL keyword yields an amount; when one does, even 0.00,
\* the total is the largest amount taken from the TOTAL lines.
C8_TotalFallback ==
    ppc = "derive" =>
        IF TotalLineAmounts(Lines(doc)) # {}
        THEN total = Max(TotalLineAmounts(Lines(doc)))
        ELSE total = MaxOrZero(AllAmounts(doc))

---------------------------------------------------------------------------
(* Claims about the rule store and the quoter *)

OffsetFields == {"yqyr_offset", "xt_offset", "gc_tax", "i9_tax"}

\* the value upsert_rule derives from a ticket for a record field
Derived(ticket, f) ==
    CASE f = "yqyr_offset" -> ticket.components["YQ"] + ticket.components["YR"]
      [] f = "xt_offset"   -> ticket.components["XT"]
      [] f = "gc_tax"      -> ticket.components["GC"]
      [] f = "i9_tax"      -> ticket.components["I9"]

\* a step that is one call of upsert_rule
IsUpsertStep == lastOp' = "upsert" /\ nUpserts' = nUpserts + 1

\* C1 (non-regression): in every run of sequential upsert_rule calls, a call
\* with a ticket whose derived value for a field is zero leaves every nonzero
\* value of that field, in every record of the store, present and unchanged.
C1_NonRegression ==
    [][ IsUpsertStep =>
          \A k \in DOMAIN rules : \A f \in OffsetFields :
              ( /\ f \in DOMAIN rules[k]
                /\ rules[k][f] # 0
                /\ Derived(arg'.ticket, f) = 0 )
              => ( /\ k \in DOMAIN rules'
                   /\ f \in DOMAIN rules'[k]
                   /\ rules'[k][f] = rules[k][f] ) ]_vars

\* C1 witness: an all-zero ticket has been upserted onto a record that held a
\* nonzero yqyr_offset, and the record returned still holds it.
C1_Witness ==
    /\ lastOp = "upsert"
    /\ \A f \in OffsetFields : Derived(arg.ticket, f) = 0
    /\ "yqyr_offset" \in DOMAIN ret.rec
    /\ ret.rec["yqyr_offset"] = 3000
    /\ rules[ret.key] = ret.rec

\* C2 (idempotent refinement): a call of upsert_rule that repeats the call
\* just made (same ticket, same pos, same date) leaves the store as the first
\* call left it and returns the same (key, record).
C2_Idempotent ==
    [][ ( /\ IsUpsertStep
          /\ lastOp = "upsert"
          /\ arg' = arg
          /\ today' = today )
        => ( rules' = rules /\ ret'.key = ret.key /\ ret'.rec = ret.rec ) ]_vars

\* C2 witness: the same nonzero ticket has been upserted twice in a row.
C2_Witness ==
    /\ lastOp = "upsert"
    /\ repeated
    /\ \E f \in OffsetFields : Derived(arg.ticket, f) # 0

\* the keys of a lookup, as the format CARRIER|ORIGIN-DEST|POS|CURRENCY
ForwardKey(a) ==
    Upper(a.carrier) \o <<"|">> \o Upper(a.origin) \o <<"-">> \o Upper(a.dest)
        \o <<"|">> \o Upper(a.pos) \o <<"|">> \o Upper(a.currency)
ReversedKey(a) ==
    Upper(a.carrier) \o <<"|">> \o Upper(a.dest) \o <<"-">> \o Upper(a.origin)
        \o <<"|">> \o Upper(a.pos) \o <<"|">> \o Upper(a.currency)

Key_CG_MAG_WWK_PG_PGK ==
    <<"C","G","|","M","A","G","-","W","W","K","|","P","G","|","P","G","K">>

\* C3 (reverse lookup): find_rule returns the forward key's record when the
\* forward key is stored, else the reversed key's record when that is stored,
\* else (null, empty record).
C3_ReverseLookup ==
    lastOp = "find" =>
        IF ForwardKey(arg) \in DOMAIN rules
        THEN ret.key = ForwardKey(arg) /\ ret.rec = rules[ForwardKey(arg)]
        ELSE IF ReversedKey(arg) \in DOMAIN rules
             THEN ret.key = ReversedKey(arg) /\ ret.rec = rules[ReversedKey(arg)]
             ELSE ret.key = Null /\ ret.rec = EmptyRecord

\* C3 witness: the rule stored under CG|MAG-WWK|PG|PGK has been found by a
\* lookup for origin WWK, dest MAG, whose forward key is not stored.
C3_Witness ==
    /\ lastOp = "find"
    /\ Upper(arg.origin) = WWK /\ Upper(arg.dest) = MAG
    /\ ForwardKey(arg) \notin DOMAIN rules
    /\ ret.key = Key_CG_MAG_WWK_PG_PGK
    /\ ret.rec = rules[Key_CG_MAG_WWK_PG_PGK]

\* the record a quote resolves to
Resolved == IF ret.key = Null THEN EmptyRecord ELSE rules[ret.key]
FieldOrZero(r, f) == IF f \in DOMAIN r THEN r[f] ELSE 0

\* C4 (quote arithmetic): selling_platform_total is the base fare plus the
\* four offsets of the resolved record, a missing one counting 0; final_total
\* is that total times (1 + markup/100) rounded to a nearest cent; with no
\* matching rule the key is null and the total is the base fare; and the two
\* worked examples give 258.94 and 145.50 / 160.05.
C4_QuoteArithmetic ==
    lastOp = "patch" =>
        /\ ret.sp = arg.base + FieldOrZero(Resolved, "yqyr_offset")
                             + FieldOrZero(Resolved, "xt_offset")
                             + FieldOrZero(Resolved, "gc_tax")
                             + FieldOrZero(Resolved, "i9_tax")
        /\ 2 * (1000 * ret.final - ret.sp * (1000 + arg.markup)) <= 1000
        /\ 2 * (ret.sp * (1000 + arg.markup) - 1000 * ret.final) <= 1000
        /\ ( ForwardKey(arg) \notin DOMAIN rules /\ ReversedKey(arg) \notin DOMAIN rules )
              => ( ret.key = Null /\ ret.sp = arg.base )
        /\ ( ret.key = Null /\ arg.base = 23800 /\ arg.markup = 88 )
              => ( ret.sp = 23800 /\ ret.final = 25894 )
        /\ ( /\ arg.base = 10000 /\ arg.markup = 100
             /\ ret.key # Null
             /\ DOMAIN Resolved \cap OffsetFields = {"yqyr_offset", "xt_offset"}
             /\ Resolved["yqyr_offset"] = 3000 /\ Resolved["xt_offset"] = 1550 )
              => ( ret.sp = 14550 /\ ret.final = 16005 )

\* C4 witness: base 100.00 at 10% has been quoted against a matched record
\* {yqyr_offset 30.00, xt_offset 15.50}.
C4_Witness ==
    /\ lastOp = "patch"
    /\ arg.base = 10000 /\ arg.markup = 100
    /\ ret.key # Null
    /\ DOMAIN Resolved \cap OffsetFields = {"yqyr_offset", "xt_offset"}
    /\ Resolved["yqyr_offset"] = 3000 /\ Resolved["xt_offset"] = 1550
    /\ ret.final = 16005

\* C10 (stored rules are findable): a find_rule call that follows an
\* upsert_rule call, with the ticket's carrier, the origin and destination of
\* its route, its currency and the same pos, returns the key and the record
\* the upsert returned, for every pos.
C10_StoredRulesFindable ==
    [][ ( /\ lastOp = "upsert"
          /\ lastOp' = "find"
          /\ arg'.carrier = arg.ticket.carrier
          /\ RouteStr(arg'.origin, arg'.dest) = arg.ticket.route
          /\ arg'.currency = arg.ticket.currency
          /\ arg'.pos = arg.pos )
        => ( ret'.key = ret.key /\ ret'.rec = ret.rec ) ]_vars

===========================================================================
